---- MODULE Spec2Model ----
(***************************************************************************)
(* VozNote: the recording-to-note pipeline, the note store and the editor  *)
(* of src/App.tsx, with the search filter of src/voznote-ai/App.tsx.       *)
(*                                                                         *)
(* Strings are sequences of one-character strings.  A Blob is the sequence *)
(* of its bytes; byte r is a byte that recorder r recorded.                 *)
(* JavaScript runs one task at a time, so every action below               *)
(* is one task: an event handler, or the part of an async function between *)
(* two awaits.                                                             *)
(***************************************************************************)
EXTENDS Integers, Sequences, FiniteSets, TLC

\* ------------------------------------------------------------- bounds
\* calls of startRecording in one run
MaxStarts == 2
\* largest value of the elapsed-seconds counter
MaxDuration == 1
\* the count of elapsed seconds at which the long recording is pointed out
LongDuration == 1
\* clock units in one minute of the title's time label
MinuteLen == 2
\* notes in the store when the editor specification starts
MaxStored == 1
\* notes in the store of the search specification
MaxSearched == 2

Recs == 1..MaxStarts

\* the sizes, in bytes, of the chunk a recorder may deliver
ChunkSizes == {0, 1}

Null == [null |-> TRUE]

\* ------------------------------------------------ types.ts enumerations
AppView == {"LIST", "RECORD", "EDIT"}

ProcessingStatus == {"IDLE", "TRANSCRIBING", "SUMMARIZING", "COMPLETED", "ERROR"}

VARIABLES
    \* React state of App
    view, notes, activeNote, tagInput, isRecording, recordingDuration,
    processingStatus,
    \* React state of the App of src/voznote-ai, which has the search box
    searchQuery,
    \* refs of App
    mediaRecorderRef, audioChunksRef, timerRef, mimeTypeRef,
    \* the platform: recorders with their streams, interval timers, pending
    \* getUserMedia promises, localStorage, the clock, the build environment
    recs, timers, pending, started, storage, booted, now, apiKey, supported,
    \* what the last task did that the state does not keep: the values it
    \* passed to setProcessingStatus, what the services were asked and answered
    last

appVars == <<view, notes, activeNote, tagInput, isRecording, recordingDuration,
             processingStatus, searchQuery>>
refVars == <<mediaRecorderRef, audioChunksRef, timerRef, mimeTypeRef>>
envVars == <<recs, timers, pending, started, storage, booted, now, apiKey, supported>>
ghostVars == <<last>>
vars == <<appVars, refVars, envVars, ghostVars>>

\* ------------------------------------------------------------ strings
Digit == <<"0", "1", "2", "3", "4", "5", "6", "7", "8", "9">>

RECURSIVE ToStr(_)
\* Number.prototype.toString: the decimal digits of n
ToStr(n) == IF n < 10 THEN <<Digit[n + 1]>>
            ELSE ToStr(n \div 10) \o <<Digit[(n % 10) + 1]>>

\* String.prototype.padStart(2, '0')
PadStart2(s) == IF Len(s) < 2 THEN <<"0">> \o s ELSE s

formatTime(seconds) ==
    LET mins == seconds \div 60
        secs == seconds % 60
    IN  PadStart2(ToStr(mins)) \o <<":">> \o PadStart2(ToStr(secs))

\* `Gravação ${toLocaleTimeString(hour, minute)}`: the clock cut to the minute
TitleOf(t) == <<"G">> \o ToStr(t \div MinuteLen)

\* toLocaleDateString: the clock cut to the day
DateOf(t) == <<"D">> \o ToStr(t \div (MinuteLen * 2))

\* ------------------------------------------------------- localStorage
Absent == [kind |-> "absent"]

Corrupt == [kind |-> "corrupt"]

\* "null": text that JSON.parse accepts and that is no array of notes
NotArray == [kind |-> "null"]

\* A save effect that serializes the notes of the first render.
StringifyStale(ns) == [kind |-> "json", val |-> <<>>]

\* JSON.stringify(notes)
Stringify(ns) == [kind |-> "json", val |-> ns]

\* JSON.parse(saved) of text it accepts
Parse(saved) == IF saved.kind = "null" THEN Null ELSE saved.val

\* A note an earlier run of the app saved, at clock reading 0
StoredNote ==
    [id |-> ToStr(0), title |-> TitleOf(0), date |-> DateOf(0),
     durationFormatted |-> formatTime(1), transcription |-> <<"h">>,
     summary |-> <<"s">>, tags |-> <<>>]

\* ------------------------------------------------------------ platform
\* MediaRecorder.isTypeSupported differs per browser
SupportedChoices == {{"audio/mp4", "audio/aac"}}

\* The encoding a recorder created without options takes in a browser that
\* supports none of the types startRecording asks about: none of them.
DefaultMime == "audio/wav"

\* The browsers and deployments the app is started in: with and without
\* API key in a browser that supports some of the types, and a browser
\* that supports none of them (there without API key: the encoding plays
\* no part once the blob is built).
Environments ==
    {[apiKey |-> k, supported |-> b] : k \in BOOLEAN, b \in SupportedChoices}
        \cup {[apiKey |-> FALSE, supported |-> {}]}

\* what the transcription and the summarization service may answer
Transcripts == {<<"h">>}

SummaryFor(text) == {<<"s">> \o text}

\* no text
None == <<"none">>

\* A task that set no status and called no service.  `last` keeps of a step
\* of processAudio: op, the step; rec, its recorder; writes, the values it
\* passed to setProcessingStatus, in order; payload, the blob of the session;
\* sent, the sizes of the chunks the recorder had delivered when its stop
\* event came; begun, the notes when the session's capture began; heard and
\* told, what transcribeAudio and summarizeText answered in this session;
\* asked, the text summarizeText was called with; type, the type of the blob
\* and mime, the encoding of the session's recorder; dur, the
\* recordingDuration the onstop handler's closure holds.  Of saveNote it keeps
\* op = "save" and again, whether the store held that very note already; of
\* addTag op = "addTag" and again, whether the note had the trimmed tag; of
\* a confirmed deleteNote op = "delete" and again, whether the store held a
\* note of that id.
NoTask ==
    [op |-> "", rec |-> 0, writes |-> <<>>, payload |-> <<>>, sent |-> <<>>,
     begun |-> <<>>, heard |-> None, asked |-> None, told |-> None,
     again |-> FALSE, type |-> "", mime |-> "", dur |-> 0, alert |-> FALSE]

\* A recorder that startRecording has not created yet
\* (sent: the sizes of the chunks it has delivered; begun: the notes when it
\* was created; onstop, dur: the handler stopRecording set and the
\* recordingDuration its closure holds; pc, blob, type, transcription: the
\* processAudio call of its onstop handler; heard, asked: what transcribeAudio
\* answered and what summarizeText was called with)
NoRec ==
    [state |-> "none", live |-> FALSE, onstop |-> FALSE, dur |-> 0,
     mime |-> "", sent |-> <<>>, begun |-> <<>>, pc |-> "none", blob |-> <<>>,
     type |-> "", transcription |-> <<>>, heard |-> None, asked |-> None,
     alerts |-> 0]

\* processAudio has returned: its locals and the recorder's history are gone
Finished(rec, how) ==
    [NoRec EXCEPT !.state = rec.state, !.live = rec.live, !.pc = how]

\* the bytes of a chunk of recorder r, of the given size
ChunkBytes(r, size) == [i \in 1..size |-> r]

RECURSIVE Concat(_)
\* new Blob(parts): the parts' bytes, one after the other
Concat(parts) ==
    IF parts = <<>> THEN <<>>
    ELSE ChunkBytes(Head(parts).rec, Head(parts).size)
         \o Concat(Tail(parts))

MinOf(S) == CHOOSE x \in S : \A y \in S : x <= y

types == <<"audio/webm;codecs=opus", "audio/webm", "audio/mp4", "audio/aac",
           "audio/ogg">>

getSupportedMimeType ==
    LET ok == {i \in 1..Len(types) : types[i] \in supported}
    IN  IF ok = {} THEN "" ELSE types[MinOf(ok)]

\* stream.getTracks().forEach(track => track.stop()) on recorder c's stream;
\* a recorder whose tracks have all ended stops by itself
StopTracks(rs, c) ==
    IF c = 0 THEN rs
    ELSE [rs EXCEPT ![c].live = FALSE,
                    ![c].state = IF @ = "recording" THEN "flushing" ELSE @]

\* -------------------------------------------------------------- Init
Init ==
    /\ view = "LIST"
    /\ notes = <<>>
    /\ activeNote = Null
    /\ tagInput = <<>>
    /\ isRecording = FALSE
    /\ recordingDuration = 0
    /\ processingStatus = "IDLE"
    /\ searchQuery = <<>>
    /\ mediaRecorderRef = 0
    /\ audioChunksRef = <<>>
    /\ timerRef = 0
    /\ mimeTypeRef = ""
    /\ recs = [r \in Recs |-> NoRec]
    /\ timers = {}
    /\ pending = 0
    /\ started = 0
    /\ storage \in {Absent, Corrupt, NotArray}
    /\ booted = "unmounted"
    /\ now = 0
    /\ \E e \in Environments : apiKey = e.apiKey /\ supported = e.supported
    /\ last = NoTask

\* ------------------------------------------------------------- mount
\* The load effect of the first render: the notes it leaves in the state,
\* the initial [] when there is no saved text or JSON.parse throws.
LoadNotes ==
    IF storage.kind \in {"absent", "corrupt"} THEN <<>> ELSE Parse(storage)

\* The effects of the first render.  The load effect calls setNotes with
\* what JSON.parse made of the saved text, unless there is no saved text or
\* JSON.parse throws; then the save effect writes the notes of the first
\* render, the initial [].  The render that setNotes asks for comes after
\* that: until then the app is "loaded", "loadedNull" when setNotes got null.
MountEffects ==
    /\ booted = "unmounted"
    /\ IF storage.kind \in {"absent", "corrupt"}
       THEN booted' = "mounted" /\ notes' = notes
       ELSE IF storage.kind = "null"
            THEN booted' = "loadedNull" /\ notes' = notes
            ELSE booted' = "loaded" /\ notes' = LoadNotes
    /\ storage' = Stringify(notes)
    /\ last' = NoTask
    /\ UNCHANGED <<view, activeNote, tagInput, searchQuery, isRecording,
                   recordingDuration, processingStatus, refVars, recs, timers,
                   pending, started, now, apiKey, supported>>

\* The render after setNotes of the load effect, and its save effect.  With
\* notes that are null the render throws at notes.length and React unmounts
\* the app.
MountRender ==
    /\ booted \in {"loaded", "loadedNull"}
    /\ IF booted = "loadedNull"
       THEN booted' = "crashed" /\ storage' = storage
       ELSE booted' = "mounted" /\ storage' = Stringify(notes)
    /\ last' = NoTask
    /\ UNCHANGED <<appVars, refVars, recs, timers, pending, started, now,
                   apiKey, supported>>

\* --------------------------------------------------------- recording
\* The "+" button of the LIST view: startRecording up to its first await.
StartRecordingCall ==
    /\ booted = "mounted"
    /\ view = "LIST" \/ (view = "EDIT" /\ activeNote = Null)
    /\ started < MaxStarts
    /\ started' = started + 1
    /\ pending' = pending + 1
    /\ last' = NoTask
    /\ UNCHANGED <<appVars, refVars, recs, timers, storage, booted, now,
                   apiKey, supported>>

\* getUserMedia resolved: the rest of startRecording's try block.
GetUserMediaResolve ==
    /\ pending > 0
    /\ LET r == started - pending + 1
           mimeType == getSupportedMimeType
       IN  /\ pending' = pending - 1
           /\ mimeTypeRef' = mimeType
           /\ recs' = [recs EXCEPT ![r] = [NoRec EXCEPT !.state = "recording",
                                                        !.live = TRUE,
                                                        !.mime =
                                                            IF mimeType # ""
                                                            THEN mimeType
                                                            ELSE DefaultMime,
                                                        !.begun = notes]]
           /\ mediaRecorderRef' = r
           /\ audioChunksRef' = <<>>
           /\ isRecording' = TRUE
           /\ recordingDuration' = 0
           /\ view' = "RECORD"
           /\ timers' = timers \cup {r}
           /\ timerRef' = r
    /\ last' = NoTask
    /\ UNCHANGED <<notes, activeNote, tagInput, searchQuery, processingStatus,
                   started, storage, booted, now, apiKey, supported>>

\* A startRecording that shows the RECORD view before the device answered,
\* and whose catch block leaves it on.
GetUserMediaRejectShown ==
    /\ pending > 0
    /\ pending' = pending - 1
    /\ isRecording' = TRUE
    /\ view' = "RECORD"
    /\ last' = [NoTask EXCEPT !.op = "denied"]
    /\ UNCHANGED <<notes, activeNote, tagInput, searchQuery, recordingDuration,
                   processingStatus, refVars, recs, timers, started, storage,
                   booted, now, apiKey, supported>>

\* getUserMedia rejected: the catch block alerts and changes nothing.
GetUserMediaReject ==
    /\ pending > 0
    /\ pending' = pending - 1
    /\ last' = [NoTask EXCEPT !.op = "denied"]
    /\ UNCHANGED <<appVars, refVars, recs, timers, started, storage, booted,
                   now, apiKey, supported>>

\* mediaRecorder.ondataavailable.  start() was called without a timeslice, so
\* recorder r delivers what it recorded as one chunk, after stop() or after
\* its tracks have ended, and before its stop event.
DataAvailable(r, size) ==
    /\ recs[r].state = "flushing"
    /\ audioChunksRef' =
          IF size > 0
          THEN Append(audioChunksRef, [rec |-> r, size |-> size])
          ELSE audioChunksRef
    /\ recs' = [recs EXCEPT ![r].sent = Append(@, size),
                            ![r].state = "stopping"]
    /\ last' = NoTask
    /\ UNCHANGED <<appVars, mediaRecorderRef, timerRef, mimeTypeRef, timers,
                   pending, started, storage, booted, now, apiKey, supported>>

\* One run of the callback of interval t: setRecordingDuration(prev => prev + 1),
\* whose updater schedules the alert of the long recording when the counter
\* comes to LongDuration.  recs[t].alerts counts the alerts of interval t.
TimerTick(t) ==
    /\ t \in timers
    /\ recordingDuration < MaxDuration
    /\ recordingDuration' = recordingDuration + 1
    /\ LET warned == recordingDuration' = LongDuration
       IN  /\ recs' = IF warned THEN [recs EXCEPT ![t].alerts = @ + 1]
                      ELSE recs
           /\ last' = [NoTask EXCEPT !.op = "tick", !.rec = t,
                                      !.alert = warned]
    /\ UNCHANGED <<view, notes, activeNote, tagInput, searchQuery, isRecording,
                   processingStatus, refVars, timers, pending, started,
                   storage, booted, now, apiKey, supported>>

\* The stop button of the RECORD view, shown while processingStatus is IDLE.
\* MediaRecorder.stop() throws InvalidStateError on an inactive recorder, which
\* ends the handler before it changes anything.
stopRecording ==
    IF mediaRecorderRef # 0 /\ isRecording /\ recs[mediaRecorderRef].state = "recording"
    THEN /\ recs' = [recs EXCEPT ![mediaRecorderRef].state = "flushing",
                                 ![mediaRecorderRef].onstop = TRUE,
                                 ![mediaRecorderRef].dur = recordingDuration]
         /\ isRecording' = FALSE
         /\ timers' = timers \ {timerRef}
         /\ timerRef' = 0
    ELSE UNCHANGED <<recs, isRecording, timers, timerRef>>

StopClick ==
    /\ view = "RECORD"
    /\ processingStatus = "IDLE"
    /\ stopRecording
    /\ last' = NoTask
    /\ UNCHANGED <<view, notes, activeNote, tagInput, searchQuery,
                   recordingDuration, processingStatus, mediaRecorderRef, audioChunksRef,
                   mimeTypeRef, pending, started, storage, booted, now, apiKey,
                   supported>>

\* ------------------------------------------------------ processAudio
\* A processAudio that builds the draft with its two texts exchanged.
NewNoteSwapped(t, duration, transcription, summary) ==
    [id |-> ToStr(t), title |-> TitleOf(t), date |-> DateOf(t),
     durationFormatted |-> formatTime(duration),
     transcription |-> summary, summary |-> transcription, tags |-> <<>>]

\* The draft note of processAudio, built at clock reading t.
NewNote(t, duration, transcription, summary) ==
    [id |-> ToStr(t), title |-> TitleOf(t), date |-> DateOf(t),
     durationFormatted |-> formatTime(duration),
     transcription |-> transcription, summary |-> summary, tags |-> <<>>]

\* new Blob(audioChunksRef.current, { type }) of the onstop handler
BlobBytes == Concat(audioChunksRef)

BlobType == IF mimeTypeRef # "" THEN mimeTypeRef ELSE "audio/webm"

\* What a step of recorder r's processAudio leaves in `last`.
Task(op, r, writes) ==
    [NoTask EXCEPT !.op = op, !.rec = r, !.writes = writes,
                   !.payload = recs[r].blob, !.sent = recs[r].sent,
                   !.begun = recs[r].begun, !.heard = recs[r].heard,
                   !.asked = recs[r].asked, !.type = recs[r].type,
                   !.mime = recs[r].mime]

\* A processAudio without its finally block: the status stays ERROR.
ProcessFailedForGood(rs, r, task) ==
    /\ recs' = [rs EXCEPT ![r] = Finished(@, "failed")]
    /\ last' = [task EXCEPT !.writes = @ \o <<"ERROR">>]
    /\ processingStatus' = "ERROR"
    /\ view' = "LIST"

\* catch and finally of processAudio, after `writes` were made in the try
\* block: ERROR, the alert, the LIST view, IDLE.
ProcessFailed(rs, r, task) ==
    /\ recs' = [rs EXCEPT ![r] = Finished(@, "failed")]
    /\ last' = [task EXCEPT !.writes = @ \o <<"ERROR", "IDLE">>]
    /\ processingStatus' = "IDLE"
    /\ view' = "LIST"

\* The stop event of recorder r.  With the onstop handler of stopRecording
\* set: build the blob, stop the tracks of the current recorder's stream and
\* run processAudio up to its first await, the call of transcribeAudio(blob).
StopEvent(r) ==
    /\ recs[r].state = "stopping"
    /\ IF recs[r].onstop
       THEN LET rs == StopTracks([recs EXCEPT ![r].state = "inactive",
                                              ![r].sent = <<>>,
                                              ![r].blob = BlobBytes,
                                              ![r].type = BlobType],
                                 mediaRecorderRef)
                task == [Task("onstop", r, <<"TRANSCRIBING">>)
                             EXCEPT !.payload = BlobBytes, !.type = BlobType]
            IN  IF apiKey
                THEN /\ recs' = [rs EXCEPT ![r].pc = "transcribing"]
                     /\ last' = task
                     /\ processingStatus' = "TRANSCRIBING"
                     /\ view' = view
                ELSE ProcessFailed(rs, r, [task EXCEPT !.op = "noKey"])
       ELSE /\ recs' = [recs EXCEPT ![r].state = "inactive", ![r].sent = <<>>]
            /\ last' = NoTask
            /\ UNCHANGED <<processingStatus, view>>
    /\ UNCHANGED <<notes, activeNote, tagInput, searchQuery, isRecording,
                   recordingDuration, refVars, timers, pending, started,
                   storage, booted, now, apiKey, supported>>

\* A processAudio that summarizes before the transcription is there.
TranscribeReturnEarly(r, text) ==
    /\ recs[r].pc = "transcribing"
    /\ recs' = [recs EXCEPT ![r].pc = "summarizing",
                            ![r].transcription = <<>>,
                            ![r].heard = text,
                            ![r].asked = <<>>]
    /\ last' = [Task("transcribed", r, <<"SUMMARIZING">>)
                   EXCEPT !.heard = text, !.asked = <<>>]
    /\ processingStatus' = "SUMMARIZING"
    /\ UNCHANGED <<view, notes, activeNote, tagInput, searchQuery, isRecording,
                   recordingDuration, refVars, timers, pending, started,
                   storage, booted, now, apiKey, supported>>

\* transcribeAudio(blob) resolved with text: on to summarizeText(transcription).
TranscribeReturn(r, text) ==
    /\ recs[r].pc = "transcribing"
    /\ recs' = [recs EXCEPT ![r].pc = "summarizing",
                            ![r].transcription = text,
                            ![r].heard = text,
                            ![r].asked = text]
    /\ last' = [Task("transcribed", r, <<"SUMMARIZING">>)
                   EXCEPT !.heard = text, !.asked = text]
    /\ processingStatus' = "SUMMARIZING"
    /\ UNCHANGED <<view, notes, activeNote, tagInput, searchQuery, isRecording,
                   recordingDuration, refVars, timers, pending, started,
                   storage, booted, now, apiKey, supported>>

\* transcribeAudio(blob) rejected.
TranscribeFail(r) ==
    /\ recs[r].pc = "transcribing"
    /\ ProcessFailed(recs, r, Task("transcribeFailed", r, <<>>))
    /\ UNCHANGED <<notes, activeNote, tagInput, searchQuery, isRecording,
                   recordingDuration, refVars, timers, pending, started,
                   storage, booted, now, apiKey, supported>>

\* Date.now() when a draft is stamped: a later millisecond than that of the
\* last stamp, or the very same one when the last draft was stamped in the
\* step just before this one.
DateNow == IF last.op = "summarized" THEN {now, now + 1} ELSE {now + 1}

\* summarizeText(transcription) resolved with summary: the draft, stamped with
\* the clock, goes to the editor, and the finally block sets IDLE.
SummarizeReturn(r, summary) ==
    /\ recs[r].pc = "summarizing"
    /\ now' \in DateNow
    /\ LET newNote == NewNote(now', recs[r].dur, recs[r].transcription, summary)
       IN  /\ activeNote' = newNote
           /\ recs' = [recs EXCEPT ![r] = Finished(@, "done")]
           /\ last' = [Task("summarized", r, <<"COMPLETED", "IDLE">>)
                          EXCEPT !.told = summary, !.dur = recs[r].dur]
    /\ view' = "EDIT"
    /\ processingStatus' = "IDLE"
    /\ UNCHANGED <<notes, tagInput, searchQuery, isRecording,
                   recordingDuration, refVars, timers, pending, started,
                   storage, booted, apiKey, supported>>

\* A catch block that hands what it has, the transcription without a
\* summary, to the editor.
SummarizeFailKeeps(r) ==
    /\ recs[r].pc = "summarizing"
    /\ recs' = [recs EXCEPT ![r] = Finished(@, "failed")]
    /\ last' = Task("summarizeFailed", r, <<"ERROR", "IDLE">>)
    /\ processingStatus' = "IDLE"
    /\ now' = now + 1
    /\ activeNote' = NewNote(now', recs[r].dur, recs[r].transcription, <<>>)
    /\ view' = "EDIT"
    /\ UNCHANGED <<notes, tagInput, searchQuery, isRecording,
                   recordingDuration, refVars, timers, pending, started,
                   storage, booted, apiKey, supported>>

\* summarizeText(transcription) rejected.
SummarizeFail(r) ==
    /\ recs[r].pc = "summarizing"
    /\ ProcessFailed(recs, r, Task("summarizeFailed", r, <<>>))
    /\ UNCHANGED <<notes, activeNote, tagInput, searchQuery, isRecording,
                   recordingDuration, refVars, timers, pending, started,
                   storage, booted, now, apiKey, supported>>

\* -------------------------------------------------------- note store
\* Array.prototype.includes
Includes(arr, x) == \E i \in 1..Len(arr) : arr[i] = x

\* prev.find(n => n.id === id) finds a note
Exists(prev, id) == \E i \in 1..Len(prev) : prev[i].id = id

\* A saveNote that puts a note of a new id behind the stored notes.
CommitAtEnd(prev, note) ==
    IF Exists(prev, note.id)
    THEN [i \in 1..Len(prev) |-> IF prev[i].id = note.id THEN note ELSE prev[i]]
    ELSE prev \o <<note>>

\* A saveNote that does not look for the note's id in the store.
CommitUnchecked(prev, note) == <<note>> \o prev

\* A saveNote that stamps the note it stores with the day of the save.
CommitRedated(prev, note) ==
    LET stamped == [note EXCEPT !.date = DateOf(now + 2 * MinuteLen)]
    IN  IF Exists(prev, note.id)
        THEN [i \in 1..Len(prev) |->
                 IF prev[i].id = note.id THEN stamped ELSE prev[i]]
        ELSE <<stamped>> \o prev

\* The updater saveNote passes to setNotes.
Commit(prev, note) ==
    IF Exists(prev, note.id)
    THEN [i \in 1..Len(prev) |-> IF prev[i].id = note.id THEN note ELSE prev[i]]
    ELSE <<note>> \o prev

\* A deleteNote whose filter keeps the note it should drop.
RemoveOthers(prev, id) == SelectSeq(prev, LAMBDA n : n.id = id)

\* The updater deleteNote passes to setNotes: prev.filter(n => n.id !== id).
Remove(prev, id) == SelectSeq(prev, LAMBDA n : n.id # id)

\* A card of the LIST view: open the i-th note in the editor.
OpenNote(i) ==
    /\ booted = "mounted"
    /\ view = "LIST" \/ (view = "EDIT" /\ activeNote = Null)
    /\ i \in 1..Len(notes)
    /\ activeNote' = notes[i]
    /\ view' = "EDIT"
    /\ last' = NoTask
    /\ UNCHANGED <<notes, tagInput, searchQuery, isRecording, recordingDuration,
                   processingStatus, refVars, envVars>>

\* The editor is on screen.
Editing == view = "EDIT" /\ activeNote # Null

\* The back arrow of the editor.
Back ==
    /\ Editing
    /\ view' = "LIST"
    /\ last' = NoTask
    /\ UNCHANGED <<notes, activeNote, tagInput, searchQuery, isRecording, recordingDuration,
                   processingStatus, refVars, envVars>>

\* "Salvar Documento": saveNote, then the save effect of the next render.
saveNote ==
    /\ Editing
    /\ notes' = Commit(notes, activeNote)
    /\ storage' = Stringify(notes')
    /\ view' = "LIST"
    /\ last' = [NoTask EXCEPT !.op = "save", !.again = Includes(notes, activeNote)]
    /\ UNCHANGED <<activeNote, tagInput, searchQuery, isRecording, recordingDuration,
                   processingStatus, refVars, recs, timers, pending, started,
                   booted, now, apiKey, supported>>

\* The trash button: deleteNote, with the user's answer to confirm().
deleteNote(confirmed) ==
    /\ Editing
    /\ IF confirmed
       THEN /\ notes' = Remove(notes, activeNote.id)
            /\ storage' = Stringify(notes')
            /\ view' = "LIST"
       ELSE UNCHANGED <<notes, storage, view>>
    /\ last' = IF confirmed
               THEN [NoTask EXCEPT !.op = "delete",
                                   !.again = Exists(notes, activeNote.id)]
               ELSE NoTask
    /\ UNCHANGED <<activeNote, tagInput, searchQuery, isRecording, recordingDuration,
                   processingStatus, refVars, recs, timers, pending, started,
                   booted, now, apiKey, supported>>

\* -------------------------------------------------------------- Spec
Next ==
    \/ MountEffects
    \/ MountRender
    \/ StartRecordingCall
    \/ GetUserMediaResolve
    \/ GetUserMediaReject
    \/ \E r \in Recs, size \in ChunkSizes : DataAvailable(r, size)
    \/ \E t \in Recs : TimerTick(t)
    \/ StopClick
    \/ \E r \in Recs : StopEvent(r)
    \/ \E r \in Recs, text \in Transcripts : TranscribeReturn(r, text)
    \/ \E r \in Recs : TranscribeFail(r)
    \/ \E r \in Recs : \E summary \in SummaryFor(recs[r].transcription) :
           SummarizeReturn(r, summary)
    \/ \E r \in Recs : SummarizeFail(r)
    \/ Back
    \/ saveNote

Spec == Init /\ [][Next]_vars

\* Each call of transcribeAudio and of summarizeText comes back: a promise
\* that is awaited resolves or rejects.
ServicesAnswer ==
    \A r \in Recs :
        /\ WF_vars(\/ \E text \in Transcripts : TranscribeReturn(r, text)
                   \/ TranscribeFail(r))
        /\ WF_vars(\/ \E summary \in SummaryFor(recs[r].transcription) :
                          SummarizeReturn(r, summary)
                   \/ SummarizeFail(r))

SpecLive == Init /\ [][Next]_vars /\ ServicesAnswer

\* ------------------------------------------------------------ editor
\* what the user may type into the tag box, the title and the text areas
TagInputs == {<<>>, <<" ">>, <<"x">>, <<" ", "x", " ">>, <<"y">>}

TextInputs == {<<"e">>}

\* the fields of the active note that the specifications edit
EditedFields == {"title"}

IsSpace(c) == c = " "

RECURSIVE TrimStart(_)
TrimStart(s) ==
    IF s # <<>> /\ IsSpace(Head(s)) THEN TrimStart(Tail(s)) ELSE s

RECURSIVE TrimEnd(_)
TrimEnd(s) ==
    IF s # <<>> /\ IsSpace(s[Len(s)]) THEN TrimEnd(SubSeq(s, 1, Len(s) - 1))
    ELSE s

\* String.prototype.trim
Trim(s) == TrimEnd(TrimStart(s))

\* onChange of the tag box
SetTagInput(value) ==
    /\ Editing
    /\ tagInput' = value
    /\ last' = NoTask
    /\ UNCHANGED <<view, notes, activeNote, isRecording, recordingDuration,
                   processingStatus, searchQuery, refVars, envVars>>

\* An addTag that does not look for the tag among the note's tags.
AddedTagsUnchecked(currentTags, input) == Append(currentTags, Trim(input))

\* the tags addTag leaves on the active note
AddedTags(currentTags, input) ==
    LET newTag == Trim(input)
    IN  IF ~Includes(currentTags, newTag) THEN Append(currentTags, newTag)
        ELSE currentTags

\* Enter in the tag box, or the tag box losing focus
addTag ==
    /\ Editing
    /\ IF activeNote = Null \/ Trim(tagInput) = <<>>
       THEN UNCHANGED <<activeNote, tagInput>>
       ELSE /\ activeNote' = [activeNote EXCEPT
                                 !.tags = AddedTags(activeNote.tags, tagInput)]
            /\ tagInput' = <<>>
    /\ last' = [NoTask EXCEPT !.op = "addTag",
                               !.again = /\ activeNote # Null
                                         /\ Includes(activeNote.tags,
                                                     Trim(tagInput))]
    /\ UNCHANGED <<view, notes, isRecording, recordingDuration,
                   processingStatus, searchQuery, refVars, envVars>>

\* the "x" button of a tag
removeTag(tagToRemove) ==
    /\ Editing
    /\ Includes(activeNote.tags, tagToRemove)
    /\ activeNote' = [activeNote EXCEPT
                         !.tags = SelectSeq(@, LAMBDA t : t # tagToRemove)]
    /\ last' = NoTask
    /\ UNCHANGED <<view, notes, tagInput, isRecording, recordingDuration,
                   processingStatus, searchQuery, refVars, envVars>>

\* An onChange that writes the edited note through to the store.
EditFieldStored(field, value) ==
    /\ Editing
    /\ activeNote' = [activeNote EXCEPT ![field] = value]
    /\ notes' = Commit(notes, activeNote')
    /\ storage' = Stringify(notes')
    /\ last' = NoTask
    /\ UNCHANGED <<view, tagInput, isRecording, recordingDuration,
                   processingStatus, searchQuery, refVars, recs, timers,
                   pending, started, booted, now, apiKey, supported>>

\* onChange of the title input and of the two text areas:
\* setActiveNote({...activeNote, [field]: value})
EditField(field, value) ==
    /\ Editing
    /\ activeNote' = [activeNote EXCEPT ![field] = value]
    /\ last' = NoTask
    /\ UNCHANGED <<view, notes, tagInput, isRecording, recordingDuration,
                   processingStatus, searchQuery, refVars, envVars>>

\* The editor and the store on their own: the app has loaded a store of
\* earlier notes and shows the list, or the editor with a fresh draft.
RECURSIVE StoresOver(_)
StoresOver(ids) ==
    {<<>>} \cup UNION {{<<NewNote(k, 0, <<"h">>, <<"s", "h">>)>> \o rest :
                          rest \in StoresOver(ids \ {k})} : k \in ids}

InitEditor ==
    /\ notes \in StoresOver(1..MaxStored)
    /\ \/ view = "LIST" /\ activeNote = Null
       \/ view = "EDIT"
          /\ activeNote = NewNote(MaxStored + 1, 1, <<"h">>, <<"s", "h">>)
    /\ tagInput = <<>>
    /\ isRecording = FALSE
    /\ recordingDuration = 0
    /\ processingStatus = "IDLE"
    /\ searchQuery = <<>>
    /\ mediaRecorderRef = 0
    /\ audioChunksRef = <<>>
    /\ timerRef = 0
    /\ mimeTypeRef = ""
    /\ recs = [r \in Recs |-> NoRec]
    /\ timers = {}
    /\ pending = 0
    /\ started = 0
    /\ storage = Stringify(notes)
    /\ booted = "mounted"
    /\ now = MaxStored + 1
    /\ apiKey = TRUE
    /\ supported \in SupportedChoices
    /\ last = NoTask

NextEditor ==
    \/ \E i \in 1..MaxStored + 1 : OpenNote(i)
    \/ Back
    \/ saveNote
    \/ \E confirmed \in BOOLEAN : deleteNote(confirmed)
    \/ \E value \in TagInputs : SetTagInput(value)
    \/ addTag
    \/ \E tagToRemove \in {Trim(v) : v \in TagInputs} : removeTag(tagToRemove)
    \/ \E field \in EditedFields, value \in TextInputs : EditField(field, value)

SpecEditor == InitEditor /\ [][NextEditor]_vars

\* ------------------------------------------- startup, session and editor
\* The app from its start over a saved store, with one session, the editor
\* of the draft of that session and the store together: all but one of the
\* starts the specifications allow have been made and were refused by the
\* device, and no stored note is opened.
AppTagInputs == {<<"x">>}

\* the fields of a note the EDIT view has an input or a text area for
NoteTexts == {"title", "summary", "transcription"}

InitApp ==
    /\ view = "LIST"
    /\ notes = <<>>
    /\ activeNote = Null
    /\ tagInput = <<>>
    /\ isRecording = FALSE
    /\ recordingDuration = 0
    /\ processingStatus = "IDLE"
    /\ searchQuery = <<>>
    /\ mediaRecorderRef = 0
    /\ audioChunksRef = <<>>
    /\ timerRef = 0
    /\ mimeTypeRef = ""
    /\ recs = [r \in Recs |-> NoRec]
    /\ timers = {}
    /\ pending = 0
    /\ started = MaxStarts - 1
    /\ storage \in {Stringify(st) : st \in StoresOver(1..MaxStored)}
    /\ booted = "unmounted"
    /\ now = MaxStored
    /\ apiKey = TRUE
    /\ supported \in SupportedChoices
    /\ last = NoTask

NextApp ==
    \/ MountEffects
    \/ MountRender
    \/ StartRecordingCall
    \/ GetUserMediaResolve
    \/ GetUserMediaReject
    \/ \E r \in Recs, size \in ChunkSizes : DataAvailable(r, size)
    \/ \E t \in Recs : TimerTick(t)
    \/ StopClick
    \/ \E r \in Recs : StopEvent(r)
    \/ \E r \in Recs, text \in Transcripts : TranscribeReturn(r, text)
    \/ \E r \in Recs : TranscribeFail(r)
    \/ \E r \in Recs : \E summary \in SummaryFor(recs[r].transcription) :
           SummarizeReturn(r, summary)
    \/ \E r \in Recs : SummarizeFail(r)
    \/ Back
    \/ saveNote
    \/ \E confirmed \in BOOLEAN : deleteNote(confirmed)
    \/ \E value \in AppTagInputs : SetTagInput(value)
    \/ addTag
    \/ \E tagToRemove \in AppTagInputs : removeTag(tagToRemove)
    \/ \E field \in NoteTexts, value \in TextInputs : EditField(field, value)

SpecApp == InitApp /\ [][NextApp]_vars

\* ------------------------------------------------------------ search
\* String.prototype.toLowerCase, on the letters the specification uses
LowerChar(c) ==
    CASE c = "A" -> "a"
      [] c = "B" -> "b"
      [] c = "C" -> "c"
      [] OTHER -> c

toLowerCase(s) == [i \in 1..Len(s) |-> LowerChar(s[i])]

\* String.prototype.includes
includes(s, sub) ==
    \E start \in 1..(Len(s) - Len(sub) + 1) :
        SubSeq(s, start, start + Len(sub) - 1) = sub

\* A filter that looks at title and summary only.
MatchesTitleSummary(n, query) ==
    \/ includes(toLowerCase(n.title), toLowerCase(query))
    \/ includes(toLowerCase(n.summary), toLowerCase(query))

\* the predicate filteredNotes passes to notes.filter
Matches(n, query) ==
    \/ includes(toLowerCase(n.title), toLowerCase(query))
    \/ includes(toLowerCase(n.summary), toLowerCase(query))
    \/ \E i \in 1..Len(n.tags) :
           includes(toLowerCase(n.tags[i]), toLowerCase(query))

filteredNotes == SelectSeq(notes, LAMBDA n : Matches(n, searchQuery))

\* onChange of the search box of the LIST view
SetSearchQuery(value) ==
    /\ view = "LIST"
    /\ searchQuery' = value
    /\ last' = NoTask
    /\ UNCHANGED <<view, notes, activeNote, tagInput, isRecording,
                   recordingDuration, processingStatus, refVars, envVars>>

\* what the user may type into the search box
Queries == {<<>>, <<"a">>, <<"A">>, <<"b">>, <<"a", "b">>, <<"B", "a">>,
            <<"c">>, <<"a", "B", "c">>}

\* the notes the search specification puts in the store
SearchTitles == {<<"A", "b">>, <<"c">>}

SearchSummaries == {<<"b", "A">>, <<"c">>}

SearchTags == {<<>>, <<<<"B">>>>, <<<<"c">>, <<"a", "B">>>>}

SearchStores ==
    UNION {[1..n -> SearchTitles \X SearchSummaries \X SearchTags] :
              n \in 0..MaxSearched}

SearchNote(i, c) ==
    [NewNote(i, 0, <<"h">>, c[2]) EXCEPT !.title = c[1], !.tags = c[3]]

InitSearch ==
    /\ \E st \in SearchStores :
           notes = [i \in 1..Len(st) |-> SearchNote(i, st[i])]
    /\ view = "LIST"
    /\ activeNote = Null
    /\ tagInput = <<>>
    /\ isRecording = FALSE
    /\ recordingDuration = 0
    /\ processingStatus = "IDLE"
    /\ searchQuery = <<>>
    /\ mediaRecorderRef = 0
    /\ audioChunksRef = <<>>
    /\ timerRef = 0
    /\ mimeTypeRef = ""
    /\ recs = [r \in Recs |-> NoRec]
    /\ timers = {}
    /\ pending = 0
    /\ started = 0
    /\ storage = Stringify(notes)
    /\ booted = "mounted"
    /\ now = MaxSearched
    /\ apiKey = TRUE
    /\ supported \in SupportedChoices
    /\ last = NoTask

NextSearch == \E value \in Queries : SetSearchQuery(value)

SpecSearch == InitSearch /\ [][NextSearch]_vars

\* ------------------------------------------------------------ claims
\* The status of the session as the user sees it: the processing status
\* while processAudio runs; otherwise capturing while the microphone records
\* or a stopped recorder still owes its onstop handler; otherwise idle.
Capturing ==
    \/ isRecording
    \/ \E r \in Recs : recs[r].onstop /\ recs[r].state \in {"flushing", "stopping"}

SessionStatus ==
    IF processingStatus # "IDLE" THEN processingStatus
    ELSE IF Capturing THEN "CAPTURING" ELSE "IDLE"

Allowed ==
    {<<"IDLE", "CAPTURING">>, <<"CAPTURING", "TRANSCRIBING">>,
     <<"TRANSCRIBING", "SUMMARIZING">>, <<"SUMMARIZING", "COMPLETED">>,
     <<"COMPLETED", "IDLE">>, <<"CAPTURING", "ERROR">>,
     <<"TRANSCRIBING", "ERROR">>, <<"SUMMARIZING", "ERROR">>,
     <<"ERROR", "IDLE">>}

Walk(path) ==
    \A i \in 1..(Len(path) - 1) :
        path[i] = path[i + 1] \/ <<path[i], path[i + 1]>> \in Allowed

\* the bytes of the non-empty chunks recorder r delivered, in delivery order
RECURSIVE OwnBytes(_, _)
OwnBytes(r, sizes) ==
    IF sizes = <<>> THEN <<>>
    ELSE ChunkBytes(r, Head(sizes)) \o OwnBytes(r, Tail(sizes))

RECURSIVE Sum(_)
Sum(sizes) == IF sizes = <<>> THEN 0 ELSE Head(sizes) + Sum(Tail(sizes))

NoDuplicates(arr) ==
    \A i, j \in 1..Len(arr) : arr[i] = arr[j] => i = j

\* C1: when a startRecording call comes through while a capture is in
\* progress or being processed, the recorder handle, the chunk buffer, the
\* seconds counter and the timer are the same after it as before it.
C1_StartLeavesActiveSession ==
    [][(pending' < pending /\ (isRecording \/ processingStatus # "IDLE"))
         => UNCHANGED <<mediaRecorderRef, audioChunksRef, recordingDuration,
                        timerRef, timers>>]_vars

\* C2: the status moves only along Idle -> Capturing -> Transcribing ->
\* Summarizing -> Completed -> Idle, or from Capturing, Transcribing or
\* Summarizing to Error and on to Idle: every step's status path, through
\* the values it sets, takes allowed transitions only, and no step ends in
\* Completed or Error.
C2_StatusMachine ==
    [][/\ Walk(<<SessionStatus>> \o last'.writes \o <<SessionStatus'>>)
       /\ SessionStatus' \notin {"COMPLETED", "ERROR"}]_vars

\* C3: when transcription fails, the status is set to Error and then Idle,
\* summarizeText has not been called in that session, and the notes are
\* what they were when the session's capture began.
C3_TranscriptionFailure ==
    last.op \in {"transcribeFailed", "noKey"} =>
        /\ Len(last.writes) >= 2
        /\ SubSeq(last.writes, Len(last.writes) - 1, Len(last.writes))
               = <<"ERROR", "IDLE">>
        /\ processingStatus = "IDLE"
        /\ last.asked = None
        /\ notes = last.begun

\* C4: when a session with a non-empty payload has both calls succeed, the
\* draft in the editor carries the text transcribeAudio answered as its
\* transcription, the text summarizeText answered for that transcription as
\* its summary and no tags, and the status ends at Idle.
C4_DraftOfSession ==
    (last.op = "summarized" /\ last.payload # <<>>) =>
        /\ activeNote # Null
        /\ activeNote.transcription = last.heard
        /\ last.asked = last.heard
        /\ activeNote.summary = last.told
        /\ activeNote.tags = <<>>
        /\ view = "EDIT"
        /\ last.writes[Len(last.writes)] = "IDLE"
        /\ processingStatus = "IDLE"

C4_Witness ==
    /\ last.op = "summarized"
    /\ last.payload # <<>>
    /\ last.heard = <<"h">>
    /\ last.told = <<"s", "h">>
    /\ activeNote # Null
    /\ activeNote.summary = <<"s", "h">>

\* C5: saveNote replaces the stored note of the same id where it stands and
\* leaves every other note and position alone; a note of a new id goes to
\* the front, before the notes stored so far.
C5_Commit ==
    [][last'.op = "save" =>
         IF \E i \in 1..Len(notes) : notes[i].id = activeNote.id
         THEN /\ Len(notes') = Len(notes)
              /\ \A i \in 1..Len(notes) :
                     notes'[i] = IF notes[i].id = activeNote.id
                                 THEN activeNote ELSE notes[i]
         ELSE /\ Len(notes') = Len(notes) + 1
              /\ Head(notes') = activeNote
              /\ Tail(notes') = notes]_vars

C5_Witness ==
    /\ last.op = "save"
    /\ ~last.again
    /\ Len(notes) >= 2
    /\ notes[Len(notes)] = activeNote
    /\ activeNote.title = <<"e">>

\* C6: saving the note in the editor twice leaves the notes as saving it
\* once does.
C6_CommitIdempotent ==
    Editing => Commit(Commit(notes, activeNote), activeNote)
                   = Commit(notes, activeNote)

C6_Witness ==
    /\ last.op = "save"
    /\ last.again
    /\ Len(notes) >= 2
    /\ Includes(notes, activeNote)

\* C7: the search result is the notes, in store order, whose title, summary
\* or one of whose tags contains the query with letter case ignored; the
\* empty query keeps every note.
SameLetter(a, b) ==
    \/ a = b
    \/ {a, b} \in {{"a", "A"}, {"b", "B"}, {"c", "C"}}

ContainsCI(s, q) ==
    \E k \in 0..(Len(s) - Len(q)) :
        \A j \in 1..Len(q) : SameLetter(s[k + j], q[j])

Wanted(n, q) ==
    \/ ContainsCI(n.title, q)
    \/ ContainsCI(n.summary, q)
    \/ \E i \in 1..Len(n.tags) : ContainsCI(n.tags[i], q)

Kept == {i \in 1..Len(notes) : Wanted(notes[i], searchQuery)}

Kth(S, j) == CHOOSE x \in S : Cardinality({y \in S : y < x}) = j - 1

C8_Tags ==
    /\ [](/\ activeNote # Null => NoDuplicates(activeNote.tags)
          /\ \A i \in 1..Len(notes) : NoDuplicates(notes[i].tags))
    /\ [][(/\ last'.op = "addTag"
           /\ \/ Trim(tagInput) = <<>>
              \/ Includes(activeNote.tags, Trim(tagInput)))
            => activeNote'.tags = activeNote.tags]_vars

C8_Witness ==
    /\ last.op = "addTag"
    /\ last.again
    /\ activeNote # Null
    /\ activeNote.tags = <<<<"y">>, <<"x">>>>
    /\ tagInput = <<>>

\* C9: transcribeAudio is never called for a capture that accumulated no
\* chunk.
C9_EmptyCapture ==
    last.op = "onstop" => last.payload # <<>>

\* C10: the payload of a session is the bytes of the non-empty chunks its
\* own recorder delivered, in delivery order, and as long as their sizes
\* together.
C10_Payload ==
    last.op \in {"onstop", "noKey"} =>
        /\ last.payload = OwnBytes(last.rec, last.sent)
        /\ Len(last.payload) = Sum(last.sent)

\* C11: a confirmed deleteNote leaves the notes whose id is not the active
\* note's, each one in its order, and nothing else; when the store has no
\* note of that id the notes stay as they are.
Others == {i \in 1..Len(notes) : notes[i].id # activeNote.id}

Saved(text) == IF text.kind = "json" THEN text.val ELSE <<>>

C13_Load ==
    [][/\ (booted = "unmounted" /\ booted' # "unmounted")
            => notes' = Saved(storage)
       /\ booted' # "crashed"]_vars

\* C14: whenever the status is Idle and nothing is being captured, the
\* chunk buffer is empty.
C14_BufferDiscarded ==
    SessionStatus = "IDLE" => audioChunksRef = <<>>

\* C15: at no time is more than one device stream live, and at no time
\* does more than one interval timer run.
C15_SingleFlight ==
    /\ Cardinality({r \in Recs : recs[r].live}) <= 1
    /\ Cardinality(timers) <= 1

\* C16: the blob of a session is tagged with the encoding of the recorder
\* that startRecording created for that session.
C16_EncodingTag ==
    last.op \in {"onstop", "noKey"} => last.type = last.mime

\* C17: whenever the status is Idle and nothing is being captured, no
\* device stream that a startRecording acquired is live.
C17_DeviceReleased ==
    SessionStatus = "IDLE" => \A r \in Recs : ~recs[r].live

\* C18: the step that starts a recording sets recordingDuration to 0, and
\* from one state of a recording to the next recordingDuration stays or
\* grows by exactly 1.
C18_Timer ==
    [][/\ (pending' < pending /\ isRecording') => recordingDuration' = 0
       /\ (isRecording /\ isRecording')
            => recordingDuration' \in
                   {recordingDuration, recordingDuration + 1}]_vars

\* C19: while no recording is on, recordingDuration does not change; the
\* stop button pressed when the recording is stopped already changes
\* nothing; and the draft's durationFormatted is formatTime of the
\* recordingDuration at the stop.
C19_TimerStop ==
    [][/\ (~isRecording /\ ~isRecording')
            => recordingDuration' = recordingDuration
       /\ (~isRecording /\ StopClick) => UNCHANGED <<appVars, refVars, envVars>>
       /\ last'.op = "summarized"
            => activeNote'.durationFormatted = formatTime(last'.dur)]_vars

\* C20: in a session summarizeText is not called while transcribeAudio is
\* awaited, and once it is called transcribeAudio has answered and
\* summarizeText was given exactly that answer.
C20_ServiceOrder ==
    \A r \in Recs :
        /\ recs[r].pc = "transcribing"
             => (recs[r].heard = None /\ recs[r].asked = None)
        /\ recs[r].pc = "summarizing"
             => (recs[r].heard # None /\ recs[r].asked = recs[r].heard)

C20_Witness ==
    \E r \in Recs :
        /\ recs[r].pc = "summarizing"
        /\ recs[r].heard = <<"h">>
        /\ recs[r].asked = <<"h">>
        /\ processingStatus = "SUMMARIZING"

\* C21: a draft gets an id that no draft or stored note got before, no two
\* stored notes share an id, and saving a draft of a new id leaves every
\* stored note in the store.
C21_UniqueIds ==
    [][/\ last'.op = "summarized"
            => \A t \in 0..now : activeNote'.id # ToStr(t)
       /\ \A i, j \in 1..Len(notes') :
              notes'[i].id = notes'[j].id => i = j
       /\ (last'.op = "save" /\ ~Exists(notes, activeNote.id))
            => \A i \in 1..Len(notes) : Includes(notes', notes[i])]_vars

\* C22: once the app has started, the notes of the store and their saved
\* form change only in a step of saveNote or of a confirmed deleteNote: the
\* step that hands a draft to the editor, an edit of the title, the summary
\* or the transcription, addTag, removeTag and the back arrow leave both as
\* they were.
C22_Frame ==
    [][(booted = "mounted" /\ (notes' # notes \/ storage' # storage))
          => last'.op \in {"save", "delete"}]_vars

\* a draft of the session, edited in its three texts and tagged, was left
\* with the back arrow and is not in the store
C22_Witness ==
    /\ view = "LIST"
    /\ activeNote # Null
    /\ activeNote.title = <<"e">>
    /\ activeNote.summary = <<"e">>
    /\ activeNote.transcription = <<"e">>
    /\ activeNote.tags = <<<<"x">>>>
    /\ ~Exists(notes, activeNote.id)
    /\ notes # <<>>
    /\ storage = Stringify(notes)

\* C23: the step in which summarizeText is rejected, after transcribeAudio
\* gave a transcript, writes ERROR and then IDLE, hands no draft to the editor
\* (the active note stays what it was and the editor is not shown), changes
\* neither the notes of the store nor their saved form, and leaves the
\* transcript in no field of the ended session; no ended session holds one.
C23_SummarizationFailure ==
    /\ [][last'.op = "summarizeFailed"
            => /\ last'.heard \in Transcripts
               /\ last'.writes = <<"ERROR", "IDLE">>
               /\ processingStatus' = "IDLE"
               /\ activeNote' = activeNote
               /\ view' # "EDIT"
               /\ notes' = notes
               /\ storage' = storage
               /\ recs'[last'.rec].transcription = <<>>
               /\ recs'[last'.rec].heard = None]_vars
    /\ [](\A r \in Recs : recs[r].pc \in {"done", "failed"}
                              => /\ recs[r].transcription = <<>>
                                 /\ recs[r].heard = None)

\* summarizeText was rejected for a session whose transcript had arrived
C23_Witness ==
    /\ last.op = "summarizeFailed"
    /\ last.heard \in Transcripts
    /\ recs[last.rec].pc = "failed"
    /\ activeNote = Null

C25_Advisory ==
    /\ [][last'.op = "tick"
            => /\ last'.alert <=> recordingDuration' = LongDuration
               /\ timers' = timers
               /\ timerRef' = timerRef
               /\ isRecording' = isRecording
               /\ processingStatus' = processingStatus]_vars
    /\ [](\A t \in Recs : recs[t].alerts <= 1)

\* the tick that brought the counter to LongDuration alerted, and its
\* interval goes on
C25_Witness ==
    /\ last.op = "tick"
    /\ last.alert
    /\ recordingDuration = LongDuration
    /\ recs[last.rec].alerts = 1
    /\ last.rec \in timers
    /\ isRecording

\* the note as processAudio built it at clock reading k, in the editor
\* specification: the notes of the loaded store and the fresh draft
Created(k) ==
    NewNote(k, IF k > MaxStored THEN 1 ELSE 0, <<"h">>, <<"s", "h">>)

\* C26: whatever was edited and saved, each note of the store and the note
\* in the editor carries the id, the date and the durationFormatted that
\* processAudio gave the note of that id.
C26_Immutable ==
    \A n \in {notes[i] : i \in 1..Len(notes)}
              \cup (IF activeNote = Null THEN {} ELSE {activeNote}) :
        \E k \in 1..MaxStored + 1 :
            /\ n.id = Created(k).id
            /\ n.date = Created(k).date
            /\ n.durationFormatted = Created(k).durationFormatted

\* a stored note was opened, renamed, tagged and saved over itself
C26_Witness ==
    /\ last.op = "save"
    /\ Exists(notes, activeNote.id)
    /\ activeNote.id = Created(1).id
    /\ activeNote.title = <<"e">>
    /\ activeNote.tags # <<>>
    /\ Includes(notes, activeNote)
    /\ ~Includes(notes, Created(1))

\* C27: while the app starts over saved text that is a collection of notes,
\* no step changes the saved text: not the effects of the first render, not
\* the render after the load.
C27_Startup ==
    [][(booted # "mounted" /\ storage.kind = "json")
          => storage' = storage]_vars

\* C28: with every call of the two services answered, a session whose
\* processAudio waits for transcribeAudio or for summarizeText comes to its
\* end with the status IDLE; and once a processAudio has ended, the "+"
\* button takes a start, at once on the list or after the back arrow of the
\* editor.
C28_Progress ==
    /\ \A r \in Recs :
           recs[r].pc \in {"transcribing", "summarizing"}
              ~> (recs[r].pc \in {"done", "failed"}
                  /\ processingStatus = "IDLE")
    /\ []((last.op \in {"summarized", "summarizeFailed", "transcribeFailed"}
            /\ started < MaxStarts)
              => /\ processingStatus = "IDLE"
                 /\ \/ ENABLED StartRecordingCall
                    \/ Editing /\ ENABLED (Back /\ view' = "LIST"))

\* transcribeAudio was rejected: the session has ended, the status is IDLE
\* and the list takes the next start
C28_Witness ==
    /\ last.op = "transcribeFailed"
    /\ recs[last.rec].pc = "failed"
    /\ processingStatus = "IDLE"
    /\ pending = 0
    /\ started < MaxStarts
    /\ ENABLED StartRecordingCall

====
